---------------------------- MODULE Spec2Model ----------------------------
(***************************************************************************)
(* The corpus-to-batch pipeline of tools.py: fit_tokenizer, the three      *)
(* nested generators generate_text_from_corpus,                            *)
(* generate_input_output_pair_from_corpus and                              *)
(* generate_batch_samples_from_corpus, and the materialization             *)
(* process_format_to_model_input with its memory guard.                    *)
(*                                                                         *)
(* A text is a sequence of one-character strings.  A word is a text.  The  *)
(* corpus directory holds regular files only; its listing order is fixed.  *)
(* Consumer 0 of the text source is fit_tokenizer; consumers 1..NumGens    *)
(* are the batch generators the single-threaded caller has created.        *)
(***************************************************************************)
EXTENDS Integers, Sequences, FiniteSets, TLC

\* ------------------------------------------------------------------ bounds
NumGens == 2
MaxFiles == 2
MaxBatch == 3
MaxLength == 3

\* --------------------------------------------------------------- fixtures
NL == "\n"
SP == " "

\* Sample corpus files:  "a b \n c a b",  "a b\n\nc a",  "\n b a \n",  "".
Documents ==
  << <<"a", SP, "b", SP, NL, SP, "c", SP, "a", SP, "b">>,
     <<"a", SP, "b", NL, NL, "c", SP, "a">>,
     <<NL, SP, "b", SP, "a", SP, NL>>,
     << >> >>

RECURSIVE SeqsUpTo(_, _)
SeqsUpTo(S, n) ==
  IF n = 0 THEN {<< >>}
  ELSE LET shorter == SeqsUpTo(S, n - 1)
       IN  shorter \cup {Append(s, x) : s \in shorter, x \in S}

\* The directories the model runs on: up to MaxFiles sample files each.
Corpora == {[k \in 1..Len(c) |-> Documents[c[k]]] :
              c \in SeqsUpTo(1..Len(Documents), MaxFiles)}

GiB == 1024 * 1024 * 1024

\* Candidate values of parameters.Y_MEMORY_SIZE_THRESHOLD_GB, as fractions
\* <<numerator, denominator>> of a GB.
Thresholds == {<<8 * n, GiB>> : n \in {1, 10, 1000}}

Gens == 1..NumGens
Consumers == 0..NumGens
NoBatch == [X |-> << >>, y |-> << >>]

VARIABLES
  corpus,                     \* the files under path, in listing order
  BATCH_SAMPLES_NUMBER,       \* parameters.BATCH_SAMPLES_NUMBER
  Y_MEMORY_SIZE_THRESHOLD_GB, \* parameters.Y_MEMORY_SIZE_THRESHOLD_GB
  max_length,                 \* the max_length argument
  vocab_size,                 \* the vocab_size argument
  tokenizer,                  \* word_index: position k holds the word of index k
  fitWords,                   \* the words fit_on_texts has counted so far
  fitDone,                    \* fit_tokenizer has returned
  fileIdx,                    \* per consumer: files the text source has opened
  textPc,                     \* per consumer: position of generate_text_from_corpus
  open,                       \* per consumer: the file whose handle is open, or 0
  lines,                      \* per generator: the lines left of the current text
  encoded,                    \* per generator: the current encoded line
  i,                          \* per generator: the loop variable of line 133
  input_output_pairs,         \* per generator: the buffer of line 151
  batch_samples_count,        \* per generator: the counter of line 150
  batch,                      \* per generator: the last (X, y) yielded
  pc,                         \* per generator: position of the batch generator
  exited,                     \* sys.exit has ended the process
  gens,                       \* the batch generators the caller has created
  segPairs,                   \* history: pairs emitted for the current line
  emitted,                    \* history: pairs emitted since the last batch or pass start
  passTag,                    \* history: parity of the current pass
  pairsInPass,                \* history: pairs emitted in the current pass
  batchesInPass,              \* history: batches yielded in the current pass
  lastPass                    \* history: <<pairs, batches>> of the last finished pass

params == <<corpus, BATCH_SAMPLES_NUMBER, Y_MEMORY_SIZE_THRESHOLD_GB, max_length, gens>>
fitVars == <<vocab_size, tokenizer, fitWords, fitDone>>
textVars == <<fileIdx, textPc, open>>
pairVars == <<lines, encoded, i>>
batchVars == <<input_output_pairs, batch_samples_count, batch>>
histVars == <<segPairs, emitted, passTag, pairsInPass, batchesInPass, lastPass>>
vars == <<params, fitVars, textVars, pairVars, batchVars, pc, exited, histVars>>

\* ------------------------------------------------------- memory estimator
byte_to_gb(byte_number) == <<byte_number, GiB>>

RECURSIVE Product(_)
Product(shape) ==
  IF shape = << >> THEN 1 ELSE Head(shape) * Product(Tail(shape))

get_array_memory_size(array_shape, item_size) ==
  byte_to_gb(Product(array_shape) * item_size)

\* variant: the guard also fires at the threshold itself
GreaterGb_OrEqual(a, b) ==
  IF a[2] = b[2] THEN a[1] >= b[1] ELSE a[1] * b[2] >= b[1] * a[2]

\* a > b for two fractions of a GB
GreaterGb(a, b) ==
  IF a[2] = b[2] THEN a[1] > b[1] ELSE a[1] * b[2] > b[1] * a[2]

\* ------------------------------------------------------------ text source
get_filenames_under_path(dir) == [k \in 1..Len(dir) |-> k]

\* str.split(sep): the pieces between single separators
RECURSIVE StrSplitFrom(_, _, _, _)
StrSplitFrom(text, sep, k, cur) ==
  IF k > Len(text) THEN <<cur>>
  ELSE IF text[k] = sep THEN <<cur>> \o StrSplitFrom(text, sep, k + 1, << >>)
  ELSE StrSplitFrom(text, sep, k + 1, Append(cur, text[k]))

\* re.compile('\n+').split(text): the pieces between runs of newlines
RECURSIVE NewlineSplitFrom(_, _, _)
NewlineSplitFrom(text, k, cur) ==
  IF k > Len(text) THEN <<cur>>
  ELSE IF text[k] = NL
       THEN IF k > 1 /\ text[k - 1] = NL
            THEN NewlineSplitFrom(text, k + 1, cur)
            ELSE <<cur>> \o NewlineSplitFrom(text, k + 1, << >>)
  ELSE NewlineSplitFrom(text, k + 1, Append(cur, text[k]))

match_newline_pattern_split(text) == NewlineSplitFrom(text, 1, << >>)

\* -------------------------------------------------------------- tokenizer
\* Tokenizer(filters=''): split on blanks, drop empty strings
text_to_word_sequence(text) ==
  SelectSeq(StrSplitFrom(text, SP, 1, << >>), LAMBDA w : w # << >>)

\* word_index after fit_on_texts: by count, highest first, ties by first use
word_index(words) ==
  LET W == {words[k] : k \in 1..Len(words)}
      Count(w) == Cardinality({k \in 1..Len(words) : words[k] = w})
      First(w) == CHOOSE k \in 1..Len(words) :
                    /\ words[k] = w
                    /\ \A m \in 1..(k - 1) : words[m] # w
      Rank(w) == 1 + Cardinality({v \in W :
                    \/ Count(v) > Count(w)
                    \/ Count(v) = Count(w) /\ First(v) < First(w)})
  IN  [r \in 1..Cardinality(W) |-> CHOOSE w \in W : Rank(w) = r]

RECURSIVE IndexesOf(_, _)
IndexesOf(wi, words) ==
  IF words = << >> THEN << >>
  ELSE LET hits == {k \in 1..Len(wi) : wi[k] = Head(words)}
       IN  (IF hits = {} THEN << >> ELSE <<CHOOSE k \in hits : TRUE>>)
             \o IndexesOf(wi, Tail(words))

\* tokenizer.texts_to_sequences([line])[0]: unknown words are dropped
texts_to_sequences(wi, line) == IndexesOf(wi, text_to_word_sequence(line))


\* -------------------------------------------------------- materialization
RECURSIVE TotalLen(_)
TotalLen(seqs) ==
  IF seqs = << >> THEN 0 ELSE Len(Head(seqs)) + TotalLen(Tail(seqs))

\* variant: the projected shape counts the buffered tokens, not the pairs
y_shape_ByTokens(pairs, vocab) == <<TotalLen(pairs), vocab + 1>>

\* line 85
y_shape(pairs, vocab) == <<Len(pairs), vocab + 1>>

\* the test of line 88
ExceedsThreshold(pairs, vocab) ==
  GreaterGb(get_array_memory_size(y_shape(pairs, vocab), 8),
            Y_MEMORY_SIZE_THRESHOLD_GB)

\* variant: padding='post', truncating='post'
PadRow_Post(s, maxlen) ==
  IF Len(s) >= maxlen
  THEN SubSeq(s, 1, maxlen)
  ELSE s \o [k \in 1..(maxlen - Len(s)) |-> 0]

\* one row of pad_sequences(maxlen, padding='pre', truncating='pre')
PadRow(s, maxlen) ==
  IF Len(s) >= maxlen
  THEN SubSeq(s, Len(s) - maxlen + 1, Len(s))
  ELSE [k \in 1..(maxlen - Len(s)) |-> 0] \o s

pad_sequences(sequences, maxlen) ==
  [j \in 1..Len(sequences) |-> PadRow(sequences[j], maxlen)]

\* to_categorical(y, num_classes): row j holds a 1 in column y[j]
to_categorical(y, num_classes) ==
  [j \in 1..Len(y) |-> [c \in 1..num_classes |-> IF c - 1 = y[j] THEN 1 ELSE 0]]

\* lines 94-104 of process_format_to_model_input
process_format_to_model_input(pairs, vocab, maxlen) ==
  LET padded == pad_sequences(pairs, maxlen)
      X == [j \in 1..Len(padded) |-> SubSeq(padded[j], 1, Len(padded[j]) - 1)]
      y == [j \in 1..Len(padded) |-> padded[j][Len(padded[j])]]
  IN  [X |-> X, y |-> to_categorical(y, vocab + 1)]

\* ------------------------------------------------------------------- Init
\* The state before fit_tokenizer is called, with the generators of `created`
\* to be pulled later.
InitWith(created) ==
  /\ gens = created
  /\ corpus \in Corpora
  /\ BATCH_SAMPLES_NUMBER \in 1..MaxBatch
  /\ Y_MEMORY_SIZE_THRESHOLD_GB \in Thresholds
  /\ max_length \in 1..MaxLength
  /\ vocab_size = 0
  /\ tokenizer = << >>
  /\ fitWords = << >>
  /\ fitDone = FALSE
  /\ fileIdx = [c \in Consumers |-> 0]
  /\ textPc = [c \in Consumers |-> "start"]
  /\ open = [c \in Consumers |-> 0]
  /\ lines = [g \in Gens |-> << >>]
  /\ encoded = [g \in Gens |-> << >>]
  /\ i = [g \in Gens |-> 1]
  /\ input_output_pairs = [g \in Gens |-> << >>]
  /\ batch_samples_count = [g \in Gens |-> 0]
  /\ batch = [g \in Gens |-> NoBatch]
  /\ pc = [g \in Gens |-> "new"]
  /\ exited = FALSE
  /\ segPairs = [g \in Gens |-> << >>]
  /\ emitted = [g \in Gens |-> << >>]
  /\ passTag = [g \in Gens |-> 0]
  /\ pairsInPass = [g \in Gens |-> 0]
  /\ batchesInPass = [g \in Gens |-> 0]
  /\ lastPass = [g \in Gens |-> <<0, 0>>]

\* one batch generator (the training generator)
Init == InitWith({1})

\* several batch generators side by side (training and validation)
MultiInit == InitWith(Gens)

\* ------------------------------------------- generate_text_from_corpus
\* The text source of consumer c is asked for its next element.
\* line 115-116: open the next file, read it, yield inside the with block
TextYield(c) ==
  /\ textPc[c] # "yielded"
  /\ fileIdx[c] < Len(get_filenames_under_path(corpus))
  /\ fileIdx' = [fileIdx EXCEPT ![c] = @ + 1]
  /\ open' = [open EXCEPT ![c] = get_filenames_under_path(corpus)[fileIdx[c] + 1]]
  /\ textPc' = [textPc EXCEPT ![c] = "yielded"]

\* resumed after the yield of line 116: the with block ends, the file closes
TextResume(c) ==
  /\ textPc[c] = "yielded"
  /\ open' = [open EXCEPT ![c] = 0]
  /\ textPc' = [textPc EXCEPT ![c] = "loop"]
  /\ UNCHANGED fileIdx

\* the for loop of line 114 has no file left
TextExhausted(c) ==
  /\ textPc[c] # "yielded"
  /\ fileIdx[c] = Len(get_filenames_under_path(corpus))

\* ----------------------------------------------------------- fit_tokenizer
\* fit_on_texts receives the next text and counts its words
FitRead ==
  /\ ~fitDone
  /\ TextYield(0)
  /\ fitWords' = fitWords \o text_to_word_sequence(corpus[open'[0]])
  /\ UNCHANGED <<params, vocab_size, tokenizer, fitDone, pairVars, batchVars,
                 pc, exited, histVars>>

\* fit_on_texts asks for the next text
FitResume ==
  /\ ~fitDone
  /\ TextResume(0)
  /\ UNCHANGED <<params, fitVars, pairVars, batchVars, pc, exited, histVars>>

\* the text source is exhausted: fit_tokenizer returns the fitted tokenizer,
\* and the caller takes vocab_size from it
FitDone ==
  /\ ~fitDone
  /\ TextExhausted(0)
  /\ tokenizer' = word_index(fitWords)
  /\ vocab_size' = Len(tokenizer')
  /\ fitDone' = TRUE
  /\ UNCHANGED <<params, fitWords, textVars, pairVars, batchVars, pc, exited,
                 histVars>>

\* ------------------------------ generate_input_output_pair_from_corpus
\* range(1, len(encoded)) of line 133 has a next value
RangeHasNext(g) == i[g] < Len(encoded[g])

\* variant: encoded[: i]
PairPrefix_Short(enc, k) == SubSeq(enc, 1, k)

\* encoded[: i + 1] of line 134
PairPrefix(enc, k) == SubSeq(enc, 1, k + 1)

\* the pair generator has nothing left of the current text
WantsText(g) == pc[g] = "running" /\ ~RangeHasNext(g) /\ lines[g] = << >>

\* line 126: the next text arrives and is split into lines (line 127)
ReadFile(g) ==
  /\ WantsText(g)
  /\ TextYield(g)
  /\ lines' = [lines EXCEPT ![g] = match_newline_pattern_split(corpus[open'[g]])]
  /\ UNCHANGED <<params, fitVars, encoded, i, batchVars, pc, exited, histVars>>

\* line 126: the text source is resumed and leaves its with block
CloseFile(g) ==
  /\ WantsText(g)
  /\ TextResume(g)
  /\ UNCHANGED <<params, fitVars, pairVars, batchVars, pc, exited, histVars>>

\* lines 127-131: the next line; an empty one is skipped, another is encoded
NextLine(g) ==
  /\ pc[g] = "running"
  /\ ~RangeHasNext(g)
  /\ lines[g] # << >>
  /\ lines' = [lines EXCEPT ![g] = Tail(@)]
  /\ IF Head(lines[g]) = << >>
     THEN UNCHANGED <<encoded, i, segPairs>>
     ELSE /\ encoded' = [encoded EXCEPT ![g] = texts_to_sequences(tokenizer, Head(lines[g]))]
          /\ i' = [i EXCEPT ![g] = 1]
          /\ segPairs' = [segPairs EXCEPT ![g] = << >>]
  /\ UNCHANGED <<params, fitVars, textVars, batchVars, pc, exited, emitted,
                 passTag, pairsInPass, batchesInPass, lastPass>>

\* ---------------------------------- generate_batch_samples_from_corpus
\* variant: the test compares with BATCH_SAMPLES_NUMBER itself
BatchIsFilling_OffByOne(count) == count < BATCH_SAMPLES_NUMBER

\* the test of line 154
BatchIsFilling(count) == count < BATCH_SAMPLES_NUMBER - 1

\* variant: the pair goes to the front of the buffer
AppendPair_Front(pairs, pair) == <<pair>> \o pairs

\* lines 155 and 158
AppendPair(pairs, pair) == Append(pairs, pair)

\* variant: the buffer is created once, outside the while loop
NewPassBuffer_Keep(pairs) == pairs

\* line 151, at the start of a pass
NewPassBuffer(pairs) == << >>

\* lines 134-136 and 152-158: a pair is yielded to the for loop of line 152,
\* which buffers it and either goes on or turns to materialization
EmitPair(g) ==
  /\ pc[g] = "running"
  /\ RangeHasNext(g)
  /\ LET pair == PairPrefix(encoded[g], i[g]) IN
       /\ i' = [i EXCEPT ![g] = @ + 1]
       /\ input_output_pairs' = [input_output_pairs EXCEPT ![g] = AppendPair(@, pair)]
       /\ segPairs' = [segPairs EXCEPT ![g] = Append(@, pair)]
       /\ emitted' = [emitted EXCEPT ![g] = Append(@, pair)]
       /\ pairsInPass' = [pairsInPass EXCEPT ![g] = @ + 1]
  /\ IF BatchIsFilling(batch_samples_count[g])
     THEN /\ batch_samples_count' = [batch_samples_count EXCEPT ![g] = @ + 1]
          /\ pc' = pc
     ELSE /\ batch_samples_count' = batch_samples_count
          /\ pc' = [pc EXCEPT ![g] = "materialize"]
  /\ UNCHANGED <<params, fitVars, textVars, lines, encoded, batch, exited,
                 passTag, batchesInPass, lastPass>>

\* lines 85-90: the projected target is over the threshold, sys.exit(0)
MemoryExit(g) ==
  /\ pc[g] = "materialize"
  /\ ExceedsThreshold(input_output_pairs[g], vocab_size)
  /\ exited' = TRUE
  /\ open' = [c \in Consumers |-> 0]
  /\ UNCHANGED <<params, fitVars, fileIdx, textPc, pairVars, batchVars, pc,
                 histVars>>

\* lines 92-104 and 160: the batch is materialized and yielded
Materialize(g) ==
  /\ pc[g] = "materialize"
  /\ ~ExceedsThreshold(input_output_pairs[g], vocab_size)
  /\ batch' = [batch EXCEPT ![g] =
       process_format_to_model_input(input_output_pairs[g], vocab_size, max_length)]
  /\ pc' = [pc EXCEPT ![g] = "yielded"]
  /\ batchesInPass' = [batchesInPass EXCEPT ![g] = @ + 1]
  /\ UNCHANGED <<params, fitVars, textVars, pairVars, input_output_pairs,
                 batch_samples_count, exited, segPairs, emitted, passTag,
                 pairsInPass, lastPass>>

\* the for loop of line 152 ends: the while loop of line 149 starts a new
\* pass with a fresh counter, buffer and pair generator
EndPass(g) ==
  /\ WantsText(g)
  /\ TextExhausted(g)
  /\ batch_samples_count' = [batch_samples_count EXCEPT ![g] = 0]
  /\ input_output_pairs' = [input_output_pairs EXCEPT ![g] = NewPassBuffer(@)]
  /\ fileIdx' = [fileIdx EXCEPT ![g] = 0]
  /\ textPc' = [textPc EXCEPT ![g] = "start"]
  /\ lastPass' = [lastPass EXCEPT ![g] = <<pairsInPass[g], batchesInPass[g]>>]
  /\ pairsInPass' = [pairsInPass EXCEPT ![g] = 0]
  /\ batchesInPass' = [batchesInPass EXCEPT ![g] = 0]
  /\ passTag' = [passTag EXCEPT ![g] = 1 - @]
  /\ emitted' = [emitted EXCEPT ![g] = << >>]
  /\ UNCHANGED <<params, fitVars, open, pairVars, batch, pc, exited, segPairs>>

\* the caller calls next() on generator g: it starts (lines 149-152), or
\* resumes after the yield of line 160 (lines 161-162)
Pull(g) ==
  /\ g \in gens
  /\ fitDone
  /\ ~exited
  /\ \A h \in Gens : pc[h] \in {"new", "yielded"}
  /\ pc' = [pc EXCEPT ![g] = "running"]
  /\ input_output_pairs' = [input_output_pairs EXCEPT ![g] = << >>]
  /\ batch_samples_count' = [batch_samples_count EXCEPT ![g] = 0]
  /\ emitted' = [emitted EXCEPT ![g] = << >>]
  /\ UNCHANGED <<params, fitVars, textVars, pairVars, batch, exited, segPairs,
                 passTag, pairsInPass, batchesInPass, lastPass>>

\* one step of the code a next() call runs
Run(g) ==
  \/ ReadFile(g)
  \/ CloseFile(g)
  \/ NextLine(g)
  \/ EmitPair(g)
  \/ MemoryExit(g)
  \/ Materialize(g)
  \/ EndPass(g)

Fit == FitRead \/ FitResume \/ FitDone

Next ==
  \/ FitRead
  \/ FitResume
  \/ FitDone
  \/ \E g \in Gens : Pull(g)
  \/ \E g \in Gens : ReadFile(g)
  \/ \E g \in Gens : CloseFile(g)
  \/ \E g \in Gens : NextLine(g)
  \/ \E g \in Gens : EmitPair(g)
  \/ \E g \in Gens : MemoryExit(g)
  \/ \E g \in Gens : Materialize(g)
  \/ \E g \in Gens : EndPass(g)

Spec == Init /\ [][~exited /\ Next]_vars

MultiSpec == MultiInit /\ [][~exited /\ Next]_vars

\* A call in progress runs on: the interpreter executes fit_tokenizer and a
\* pulled generator until it returns, yields or exits.  The caller is under
\* no obligation to pull.
FairSpec ==
  /\ Spec
  /\ WF_vars(~exited /\ Fit)
  /\ WF_vars(~exited /\ \E g \in Gens : Run(g))

\* ================================================================ claims
RECURSIVE Sum(_)
Sum(row) == IF row = << >> THEN 0 ELSE Head(row) + Sum(Tail(row))

\* the class a one-hot row marks
HotClass(row) == CHOOSE c \in 0..(Len(row) - 1) : row[c + 1] = 1

Zeros(n) == [k \in 1..n |-> 0]

\* C1: every batch a generator has yielded has exactly BATCH_SAMPLES_NUMBER
\* rows in X and in y, and every row of y has vocab_size + 1 entries, all 0
\* but a single 1; no batch with fewer rows is ever yielded.
C1_FullBatches ==
  \A g \in Gens :
    (pc[g] = "yielded" \/ batch[g] # NoBatch) =>
      /\ Len(batch[g].X) = BATCH_SAMPLES_NUMBER
      /\ Len(batch[g].y) = BATCH_SAMPLES_NUMBER
      /\ \A j \in 1..Len(batch[g].y) :
           /\ Len(batch[g].y[j]) = vocab_size + 1
           /\ \A c \in 1..(vocab_size + 1) : batch[g].y[j][c] \in {0, 1}
           /\ Sum(batch[g].y[j]) = 1

\* a second batch of a pass has been yielded with BATCH_SAMPLES_NUMBER = 1
C1_Witness ==
  /\ BATCH_SAMPLES_NUMBER = 1
  /\ pc[1] = "yielded"
  /\ batchesInPass[1] >= 2

ExpectedPairs(enc) ==
  [k \in 1..(IF Len(enc) >= 1 THEN Len(enc) - 1 ELSE 0) |-> SubSeq(enc, 1, k + 1)]

\* C2: the pairs emitted for a line encoding to n tokens are, in order,
\* encoded[0:2], encoded[0:3], ...; once the pair generator has no further
\* pair of the line to emit they are exactly the n-1 pairs encoded[0:i+1],
\* i = 1..n-1, and none when n < 2.
C2_PairsPerSegment ==
  \A g \in Gens :
    LET want == ExpectedPairs(encoded[g]) IN
      /\ Len(segPairs[g]) <= Len(want)
      /\ \A k \in 1..Len(segPairs[g]) :
           /\ segPairs[g][k] = want[k]
           /\ Len(segPairs[g][k]) = k + 1
           /\ segPairs[g][k][k + 1] = encoded[g][k + 1]
      /\ (pc[g] = "running" /\ ~ENABLED EmitPair(g)) =>
           /\ segPairs[g] = want
           /\ Len(encoded[g]) >= 2 => Len(segPairs[g]) = Len(encoded[g]) - 1
           /\ Len(encoded[g]) < 2 => segPairs[g] = << >>

\* a line of three tokens has been emitted completely
C2_Witness ==
  /\ pc[1] = "running"
  /\ Len(encoded[1]) = 3
  /\ Len(segPairs[1]) = 2
  /\ ~ENABLED EmitPair(1)

\* C3: a materialization whose projected target (buffered pairs times
\* vocab_size + 1 elements of 8 bytes) is strictly over the threshold ends
\* the process without yielding or changing any batch; one at or under the
\* threshold yields the batch; and nothing happens once the process has ended.
C3_GuardDecides ==
  [][/\ ~exited
     /\ \A g \in Gens :
          pc[g] = "materialize" =>
            LET bytes == 8 * Len(input_output_pairs[g]) * (vocab_size + 1) IN
              IF Y_MEMORY_SIZE_THRESHOLD_GB[2] = GiB
                 /\ bytes > Y_MEMORY_SIZE_THRESHOLD_GB[1]
              THEN exited' /\ batch' = batch /\ pc' = pc
              ELSE /\ ~exited'
                   /\ pc'[g] = "yielded"
                   /\ Len(batch'[g].X) = Len(input_output_pairs[g])]_vars

\* a batch whose footprint equals the threshold has been yielded
C3_Witness ==
  /\ pc[1] = "yielded"
  /\ 8 * Len(input_output_pairs[1]) * (vocab_size + 1) = Y_MEMORY_SIZE_THRESHOLD_GB[1]

\* C4: a generator that has been pulled eventually yields a batch, unless
\* the memory guard ends the process.
C4_AlwaysAnotherBatch ==
  \A g \in Gens : (pc[g] = "running") ~> (pc[g] = "yielded" \/ exited)

\* the row pad_sequences makes of a pair, position by position
PrePadded(pair, width) ==
  [k \in 1..width |->
     IF k > width - Len(pair) THEN pair[Len(pair) - width + k] ELSE 0]

\* C5 (as amended): every buffered pair is left-padded with 0, or cut on the
\* left, to exactly max_length elements; the X row is all but the last of
\* them and the y row marks the last.  With max_length = 4 the pairs [1,2],
\* [3,4], [3,4,5] become [0,0,1,2], [0,0,3,4], [0,3,4,5].
C5_PadToMaxLength ==
  /\ \A g \in Gens :
       pc[g] = "yielded" =>
         \A j \in 1..Len(input_output_pairs[g]) :
           LET row == batch[g].X[j] \o <<HotClass(batch[g].y[j])>> IN
             /\ Len(row) = max_length
             /\ row = PrePadded(input_output_pairs[g][j], max_length)
  /\ process_format_to_model_input(<< <<1, 2>>, <<3, 4>>, <<3, 4, 5>> >>, 7, 4) =
       [X |-> << <<0, 0, 1>>, <<0, 0, 3>>, <<0, 3, 4>> >>,
        y |-> << <<0, 0, 1, 0, 0, 0, 0, 0>>,
                 <<0, 0, 0, 0, 1, 0, 0, 0>>,
                 <<0, 0, 0, 0, 0, 1, 0, 0>> >>]

\* a batch holding a pair shorter than max_length has been yielded
C5_Witness ==
  /\ pc[1] = "yielded"
  /\ max_length = 3
  /\ \E j \in 1..Len(input_output_pairs[1]) : Len(input_output_pairs[1][j]) = 2
  /\ \E j \in 1..Len(input_output_pairs[1]) : Len(input_output_pairs[1][j]) = 3

\* C5 as stated: every buffered pair is padded or cut to exactly
\* max_length - 1 elements and the X row is all but the last of those.
C5_PadToMaxLengthMinusOne ==
  \A g \in Gens :
    pc[g] = "yielded" =>
      \A j \in 1..Len(input_output_pairs[g]) :
        LET row == PrePadded(input_output_pairs[g][j], max_length - 1) IN
          batch[g].X[j] = SubSeq(row, 1, Len(row) - 1)

\* C6: while the text source of a consumer is suspended at its yield, with
\* the consumer working on the text, no handle of the source is open.
C6_NoHandleWhileSuspended ==
  \A c \in Consumers : textPc[c] = "yielded" => open[c] = 0

\* C7: at most one corpus file handle is open.
C7_AtMostOneHandle ==
  Cardinality({c \in Consumers : open[c] # 0}) <= 1

\* C8: the buffer holds exactly the pairs emitted in the current pass since
\* the last batch (never a pair of an earlier pass); a pass starts with an
\* empty buffer and a zero counter; and a finished pass of P pairs has
\* yielded P \div BATCH_SAMPLES_NUMBER batches, as has the current pass so
\* far.
C8_PassBoundary ==
  \A g \in Gens :
    /\ input_output_pairs[g] = emitted[g]
    /\ (pc[g] = "running" /\ pairsInPass[g] = 0) =>
         input_output_pairs[g] = << >> /\ batch_samples_count[g] = 0
    /\ lastPass[g][2] = lastPass[g][1] \div BATCH_SAMPLES_NUMBER
    /\ pc[g] \in {"running", "yielded"} =>
         batchesInPass[g] = pairsInPass[g] \div BATCH_SAMPLES_NUMBER

\* a pass has ended with pairs left in the buffer, and the next has emitted
C8_Witness ==
  /\ lastPass[1][2] >= 1
  /\ lastPass[1][1] % BATCH_SAMPLES_NUMBER # 0
  /\ pairsInPass[1] >= 1

\* C9: row j of a yielded batch comes from the j-th pair emitted since the
\* previous batch: the y row marks that pair's last token, and the X row is
\* that pair's prefix, left-padded with 0 or cut down to its rightmost
\* max_length - 1 tokens.
C9_RowsFollowEmission ==
  \A g \in Gens :
    pc[g] = "yielded" =>
      /\ Len(batch[g].X) = Len(emitted[g])
      /\ Len(batch[g].y) = Len(emitted[g])
      /\ \A j \in 1..Len(emitted[g]) :
           LET pair == emitted[g][j]
               prefix == SubSeq(pair, 1, Len(pair) - 1)
               width == max_length - 1
           IN  /\ batch[g].y[j][pair[Len(pair)] + 1] = 1
               /\ batch[g].X[j] =
                    IF Len(prefix) >= width
                    THEN SubSeq(prefix, Len(prefix) - width + 1, Len(prefix))
                    ELSE Zeros(width - Len(prefix)) \o prefix

\* a batch of several rows, one of them cut on the left, has been yielded
C9_Witness ==
  /\ pc[1] = "yielded"
  /\ BATCH_SAMPLES_NUMBER >= 2
  /\ \E j \in 1..Len(emitted[1]) : Len(emitted[1][j]) > max_length
  /\ \E j \in 1..Len(emitted[1]) : emitted[1][j] # emitted[1][1]

\* C10: the guard ends the process at the first materialization attempt or
\* never: when the process has ended, no batch was ever yielded.
C10_GuardOutcomeFixed ==
  exited =>
    \A g \in Gens :
      /\ batch[g] = NoBatch
      /\ batchesInPass[g] = 0
      /\ lastPass[g] = <<0, 0>>

\* the guard has ended the process on a buffer of several pairs
C10_Witness ==
  /\ exited
  /\ BATCH_SAMPLES_NUMBER >= 2
  /\ Len(input_output_pairs[1]) = BATCH_SAMPLES_NUMBER

=============================================================================
